---- MODULE Spec2Model ----
(***************************************************************************)
(* The webhook controller of src/main/git/github_app_webhooks.py.          *)
(*                                                                         *)
(* State: the module-global PR_ITERATIONS (a defaultdict(int) keyed by the *)
(* pull-request NUMBER) and the pull requests that exist on the platform.  *)
(* A handler runs on one event loop.  It gives up the loop only where it   *)
(* awaits the request (lines 74 and 79), before it reads any state: the    *)
(* coroutines it awaits afterwards (get_issue_comments, get_pr_diff,       *)
(* run_reviewer_agent, run_coder_agent) contain no await that suspends,    *)
(* the clients they use are synchronous.  From line 80 to its response a   *)
(* handler is therefore one step.                                          *)
(*                                                                         *)
(* Collaborators (GitHubAppClient methods, the agents) may raise; FastAPI  *)
(* turns an exception that is not an HTTPException into a 500 response.    *)
(* run_coder_agent is called as run_coder_agent(context, allowed_files=..) *)
(* (lines 117, 211) while the function imported at line 9                  *)
(* (agents/coder_agent.py:83) takes (issue_title, issue_body, comments):   *)
(* the call raises TypeError, so lines 119-142 and 212-223 follow the call *)
(* in the text of the handler but are not reached.                         *)
(***************************************************************************)
EXTENDS Integers, Sequences, FiniteSets, TLC

\* ----------------- bounds of the model -----------------
MaxCount == 7          \* no increment is delivered once a count is MaxCount
MaxFiles == 1          \* the agent returns at most MaxFiles files
MaxBurst == 6          \* deliveries in flight at once in SpecBurst

Repos == {"A", "B"}    \* repository.full_name
PRNums == {1}          \* pull request numbers
IssueNums == {9}       \* numbers of issues that are not pull requests
BurstTasks == 1..MaxBurst

\* ----------------- STATE (lines 17-19) -----------------
VARIABLES
    MAX_ITERATIONS, \* the module global of line 19: 5 unless a caller resets it
    PR_ITERATIONS,  \* [PRNums -> Nat]; 0 is "no entry" (defaultdict(int))
    pulls,          \* the pull requests that exist: [repo, num, head]
    pc,             \* per handler: "idle", or "start" (it awaits the request)
    req,            \* per handler: the request it is handling
    response,       \* the response being sent: its request, trace and status
    hist,           \* per number: the increments since the entry was made
    start,          \* per number: 1 once line 140 has set the entry, else 0
    maxReached,     \* keys for which "max iterations reached" was answered
    inbox,          \* events the platform has raised and not yet delivered
    agent_response, \* the text given to parse_agent_diff, as characters
    files_to_update \* what parse_agent_diff returned for it, once it has run

vars == <<MAX_ITERATIONS, PR_ITERATIONS, pulls, pc, req, response,
          hist, start, maxReached, inbox, agent_response, files_to_update>>

\* ----------------- UTILS (lines 22-30) -----------------
WEBHOOK_SECRET == "secret"

\* hmac.new(key, msg, sha256).hexdigest(): a digest names its key and message
HmacHex(key, msg) == <<"hmac-sha256", key, msg>>

\* A header value: absent, or a prefix and the rest.  NonHex stands for a
\* rest that is no hex digest: it has a character outside ASCII (headers
\* reach the handler decoded as latin-1).
NoHeader == <<"None">>
SigHeader(digest) == <<"sha256=", digest>>
NonHex(msg) == <<"non-ascii", "", msg>>

IsAscii(signature) == Len(signature) < 2 \/ signature[2][1] # "non-ascii"

\* hmac.compare_digest(a, b) on two str: TypeError unless both are ASCII
compare_digest(a, b) ==
    IF ~IsAscii(a) \/ ~IsAscii(b) THEN "TypeError"
    ELSE IF a = b THEN "True" ELSE "False"

\* lines 22-25
verify_signature(payload, signature) ==
    compare_digest(SigHeader(HmacHex(WEBHOOK_SECRET, payload)), signature)

\* Comment bodies are sequences of words.  TOK_VERDICT stands for the
\* Cyrillic marker of line 30 (the module text is ASCII).
TOK_VERDICT == "Verdikt:"
TOK_REVIEWER == "[REVIEWER]"
SYSTEM_COMMENT == <<"[SYSTEM] Max iterations reached. Manual intervention required.">>

Contains(body, word) == \E i \in 1..Len(body) : body[i] = word
StartsWith(body, word) == Len(body) > 0 /\ body[1] = word

\* str.lower() on the words used here
LowerWord(w) ==
    CASE w = "Request Changes" -> "request changes"
      [] w = "REQUEST CHANGES" -> "request changes"
      [] w = "Approve" -> "approve"
      [] w = TOK_REVIEWER -> "[reviewer]"
      [] w = TOK_VERDICT -> "verdikt:"
      [] w = SYSTEM_COMMENT[1]
           -> "[system] max iterations reached. manual intervention required."
      [] OTHER -> w
Lower(body) == [i \in 1..Len(body) |-> LowerWord(body[i])]

\* every comment that this program or its agents wrote taken for a review
is_reviewer_comment_own(comment_body) ==
    \/ Contains(comment_body, TOK_VERDICT) \/ StartsWith(comment_body, TOK_REVIEWER)
    \/ comment_body = SYSTEM_COMMENT

\* lines 28-30
is_reviewer_comment(comment_body) ==
    Contains(comment_body, TOK_VERDICT) \/ StartsWith(comment_body, TOK_REVIEWER)

\* line 190
VerdictOf(comment) ==
    IF Contains(Lower(comment), "request changes") THEN "request changes" ELSE "approve"

\* github_client.py lines 308-317: the last path segment of the API URL
PrUrl(repo, n) == <<"https://api.github.com/repos", repo, "pulls", n>>
get_pr_number_from_url(pr_url) == pr_url[Len(pr_url)]

\* ----------------- requests -----------------
Bodies == {
    <<TOK_VERDICT, "Request Changes">>,
    <<TOK_REVIEWER, "approve">>,
    <<"text", TOK_REVIEWER, "request changes">>,
    SYSTEM_COMMENT }

\* What the review agent may answer (reviewer_agent.py 65-72: the text of the
\* model, stripped; its prompt, lines 5-16, names no marker).
ReviewTexts == Bodies \ { SYSTEM_COMMENT }

\* A payload: the event header, the action, what an otherwise complete
\* payload lacks ("none": complete; a key: that key is absent; "json": the
\* body is not JSON; "installation.id": "installation" is null), the
\* repository, the issue or pull-request number (0: check_run.pull_requests
\* is empty) and the comment body.
Payload(e, a, m, r, n, b) ==
    [event |-> e, action |-> a, missing |-> m, repo |-> r, num |-> n, body |-> b]

Payloads ==
    { Payload("ping", "none", m, "A", 0, <<>>) :
        m \in {"none", "installation", "repository", "installation.id", "json"} }
    \cup { Payload("push", "none", m, "A", 0, <<>>) :
             m \in {"none", "installation", "repository", "installation.id", "json"} }
    \cup { Payload("issues", "opened", "none", r, n, <<>>) : r \in Repos, n \in IssueNums }
    \cup { Payload("issues", a.action, a.missing, "A", n, <<>>) :
             a \in { [action |-> "opened", missing |-> "issue.title"],
                     [action |-> "closed", missing |-> "none"] },
             n \in IssueNums }
    \cup { Payload("check_run", "completed", "none", r, n, <<>>) :
             r \in Repos, n \in PRNums }
    \cup { Payload("check_run", "completed", m, "A", 0, <<>>) :
             m \in {"none", "check_run.conclusion"} }
    \cup { Payload("check_run", "completed", "check_run.conclusion", "A", n, <<>>) :
             n \in PRNums }
    \cup { Payload("issue_comment", "created", "none", r, n, b) :
             r \in Repos, n \in PRNums, b \in Bodies }
    \cup { Payload("issue_comment", "created", m, "A", n, <<TOK_VERDICT, "Request Changes">>) :
             m \in {"comment.body", "repository"}, n \in PRNums }
    \cup { Payload("issue_comment", "created", "installation", "A", n, SYSTEM_COMMENT) :
             n \in PRNums }
    \cup { Payload("issue_comment", "created", "issue.pull_request", "A", n,
                   <<TOK_VERDICT, "Request Changes">>) : n \in IssueNums }

GoodSig(p) == SigHeader(HmacHex(WEBHOOK_SECRET, p))

\* Header values that are not the HMAC of the body under the secret: absent,
\* empty, made with another key, made for another body, not ASCII.
BadSigs(p) ==
    { NoHeader, <<>>,
      SigHeader(HmacHex("guess", p)),
      SigHeader(HmacHex(WEBHOOK_SECRET, Payload("push", "none", "none", "B", 0, <<>>))),
      SigHeader(NonHex(p)) }

BadSigPayloads ==
    { p \in Payloads : /\ p.repo = "A" /\ p.missing = "none" /\ p.num # 0
                       /\ p.action \in {"opened", "created"}
                       /\ p.body \in {<<>>, <<TOK_VERDICT, "Request Changes">>} }
    \cup { Payload("ping", "none", "none", "A", 0, <<>>) }

Requests ==
    { [payload |-> p, sig |-> GoodSig(p)] : p \in Payloads }
    \cup UNION { { [payload |-> p, sig |-> h] : h \in BadSigs(p) } : p \in BadSigPayloads }

NoReq == [payload |-> Payload("none", "none", "none", "A", 0, <<>>), sig |-> NoHeader]

\* ----------------- what a handler does -----------------
\* One entry per collaborator call or state write, in program order.
\* it: the iteration number the entry carries; arg: the branch written to or
\* the kind of comment posted; body: the text of a review that is posted;
\* ok: FALSE when the call raised; x: the outcome of the limit test.
Entry(op, repo, num, it, arg) ==
    [op |-> op, repo |-> repo, num |-> num, it |-> it, arg |-> arg,
     ok |-> TRUE, x |-> FALSE, body |-> <<>>]

\* Calls that leave the process and may raise.  list_files and
\* get_file_content catch every exception (github_client.py 240-276).
AgentCalls == { "run_coder_agent", "run_reviewer_agent" }
Fallible ==
    { "GitHubAppClient", "get_issue_comments", "create_branch",
      "create_or_update_file", "create_pull_request", "get_pull_request",
      "get_pr_diff", "get_files", "add_pr_comment" } \cup AgentCalls
CollaboratorCalls == Fallible \cup { "list_files" }
IterWrites == { "iter_add", "iter_set" }

Respond(status, msg) == [kind |-> "return", status |-> status, msg |-> msg]
Raise(exc) == [kind |-> "raise", status |-> 500, msg |-> exc]
\* the handler is at the call of an agent: what follows depends on the call
AtCall(at) == [kind |-> "call", status |-> 0, msg |-> at]
Seg(plan, end) == [plan |-> plan, end |-> end]

Failed(entry) == [entry EXCEPT !.ok = FALSE]

\* line 119
BranchName(issue_number) == "issue-" \o ToString(issue_number) \o "-fix"

\* the limit test true only of the first count past the limit
ExceededOnce(count) == count = MAX_ITERATIONS + 1

\* the limit test written with >= instead of >
ExceededAtLimit(count) == count >= MAX_ITERATIONS

\* line 181
Exceeded(count) == count > MAX_ITERATIONS

\* lines 94-117: issue opened, up to the call of the coder agent
IssueOpenedBegin(p) ==
    IF p.missing = "issue.title"
    THEN Seg(<<>>, Raise("KeyError"))
    ELSE Seg(<< Entry("get_issue_comments", p.repo, p.num, 0, ""),
                Entry("list_files", p.repo, p.num, 0, ""),
                Entry("run_coder_agent", p.repo, p.num, 0, "") >>,
             AtCall("coder_issue"))

\* lines 145-164: check run completed, up to the call of the reviewer agent
CheckRunBegin(p) ==
    IF p.num = 0
    THEN Seg(<<>>, Respond(200, "check_run without PR"))
    ELSE IF p.missing = "check_run.conclusion"
    THEN Seg(<< Entry("get_pull_request", p.repo, p.num, 0, ""),
                Entry("get_pr_diff", p.repo, p.num, 0, "") >>,
             Raise("KeyError"))
    ELSE Seg(<< Entry("get_pull_request", p.repo, p.num, 0, ""),
                Entry("get_pr_diff", p.repo, p.num, 0, ""),
                Entry("run_reviewer_agent", p.repo, p.num, 0, "") >>,
             AtCall("reviewer"))

\* the branch of the round made before the coder agent is called
IterationStepNewBranch(p, iters) ==
    LET pr_number == get_pr_number_from_url(PrUrl(p.repo, p.num))
        count == iters[pr_number] + 1
        inc == [Entry("iter_add", p.repo, pr_number, count, "")
                  EXCEPT !.x = Exceeded(count)]
    IN  IF Exceeded(count)
        THEN Seg(<< inc, Entry("add_pr_comment", p.repo, pr_number, 0, "system") >>,
                 Respond(200, "max iterations reached"))
        ELSE IF VerdictOf(p.body) = "approve"
        THEN Seg(<< inc >>, Respond(200, "review approved"))
        ELSE Seg(<< inc,
                    Entry("get_pull_request", p.repo, pr_number, 0, ""),
                    Entry("get_pr_diff", p.repo, pr_number, 0, ""),
                    Entry("get_files", p.repo, pr_number, 0, ""),
                    Entry("create_branch", p.repo, pr_number, 0, BranchName(pr_number)),
                    Entry("run_coder_agent", p.repo, pr_number, count, "") >>,
                 AtCall("coder_comment"))

\* the context built with the count read before the increment
IterationStepStale(p, iters) ==
    LET pr_number == get_pr_number_from_url(PrUrl(p.repo, p.num))
        count == iters[pr_number] + 1
        inc == [Entry("iter_add", p.repo, pr_number, count, "")
                  EXCEPT !.x = Exceeded(count)]
    IN  IF Exceeded(count)
        THEN Seg(<< inc, Entry("add_pr_comment", p.repo, pr_number, 0, "system") >>,
                 Respond(200, "max iterations reached"))
        ELSE IF VerdictOf(p.body) = "approve"
        THEN Seg(<< inc >>, Respond(200, "review approved"))
        ELSE Seg(<< inc,
                    Entry("get_pull_request", p.repo, pr_number, 0, ""),
                    Entry("get_pr_diff", p.repo, pr_number, 0, ""),
                    Entry("get_files", p.repo, pr_number, 0, ""),
                    Entry("run_coder_agent", p.repo, pr_number, iters[pr_number], "") >>,
                 AtCall("coder_comment"))

\* the limit answered without the comment on the pull request
IterationStepSilent(p, iters) ==
    LET pr_number == get_pr_number_from_url(PrUrl(p.repo, p.num))
        count == iters[pr_number] + 1
        inc == [Entry("iter_add", p.repo, pr_number, count, "")
                  EXCEPT !.x = Exceeded(count)]
    IN  IF Exceeded(count)
        THEN Seg(<< inc >>, Respond(200, "max iterations reached"))
        ELSE IF VerdictOf(p.body) = "approve"
        THEN Seg(<< inc >>, Respond(200, "review approved"))
        ELSE Seg(<< inc,
                    Entry("get_pull_request", p.repo, pr_number, 0, ""),
                    Entry("get_pr_diff", p.repo, pr_number, 0, ""),
                    Entry("get_files", p.repo, pr_number, 0, ""),
                    Entry("run_coder_agent", p.repo, pr_number, count, "") >>,
                 AtCall("coder_comment"))

\* the increment placed after the call of the coder agent
IterationStepLate(p, iters) ==
    LET pr_number == get_pr_number_from_url(PrUrl(p.repo, p.num))
        count == iters[pr_number] + 1
        inc == [Entry("iter_add", p.repo, pr_number, count, "")
                  EXCEPT !.x = Exceeded(count)]
    IN  IF Exceeded(count)
        THEN Seg(<< inc, Entry("add_pr_comment", p.repo, pr_number, 0, "system") >>,
                 Respond(200, "max iterations reached"))
        ELSE IF VerdictOf(p.body) = "approve"
        THEN Seg(<< inc >>, Respond(200, "review approved"))
        ELSE Seg(<< Entry("get_pull_request", p.repo, pr_number, 0, ""),
                    Entry("get_pr_diff", p.repo, pr_number, 0, ""),
                    Entry("get_files", p.repo, pr_number, 0, ""),
                    Entry("run_coder_agent", p.repo, pr_number, count, ""),
                    inc >>,
                 AtCall("coder_comment"))

\* lines 179-211: the limit test, the verdict, up to the call of the coder
IterationStep(p, iters) ==
    LET pr_number == get_pr_number_from_url(PrUrl(p.repo, p.num))
        count == iters[pr_number] + 1
        inc == [Entry("iter_add", p.repo, pr_number, count, "")
                  EXCEPT !.x = Exceeded(count)]
    IN  IF Exceeded(count)
        THEN Seg(<< inc, Entry("add_pr_comment", p.repo, pr_number, 0, "system") >>,
                 Respond(200, "max iterations reached"))
        ELSE IF VerdictOf(p.body) = "approve"
        THEN Seg(<< inc >>, Respond(200, "review approved"))
        ELSE Seg(<< inc,
                    Entry("get_pull_request", p.repo, pr_number, 0, ""),
                    Entry("get_pr_diff", p.repo, pr_number, 0, ""),
                    Entry("get_files", p.repo, pr_number, 0, ""),
                    Entry("run_coder_agent", p.repo, pr_number, count, "") >>,
                 AtCall("coder_comment"))

\* lines 170-177
IssueCommentBegin(p, iters) ==
    IF p.missing = "comment.body"
    THEN Seg(<<>>, Raise("KeyError"))
    ELSE IF ~is_reviewer_comment(p.body)
    THEN Seg(<<>>, Respond(200, "not reviewer comment"))
    ELSE IF p.missing = "issue.pull_request"
    THEN Seg(<<>>, Raise("KeyError"))
    ELSE IterationStep(p, iters)

\* lines 93-226: the dispatch on event and action
Dispatch(p, iters) ==
    IF p.event = "issues" /\ p.action = "opened" THEN IssueOpenedBegin(p)
    ELSE IF p.event = "check_run" /\ p.action = "completed" THEN CheckRunBegin(p)
    ELSE IF p.event = "issue_comment" /\ p.action = "created" THEN IssueCommentBegin(p, iters)
    ELSE Seg(<<>>, Respond(200, "ok"))

\* lines 79-91 and the dispatch, for a request whose signature was accepted
AfterSignature(r, iters) ==
    IF r.payload.missing = "json"
    THEN Seg(<< Failed(Entry("request.json", "", 0, 0, "")) >>, Raise("JSONDecodeError"))
    ELSE IF r.payload.event = "ping"
    THEN Seg(<< Entry("request.json", "", 0, 0, "") >>, Respond(200, "pong"))
    ELSE IF r.payload.missing \in {"installation", "repository"}
    THEN Seg(<< Entry("request.json", "", 0, 0, "") >>, Respond(400, "Malformed payload"))
    ELSE IF r.payload.missing = "installation.id"
    THEN Seg(<< Entry("request.json", "", 0, 0, "") >>, Raise("TypeError"))
    ELSE LET d == Dispatch(r.payload, iters)
         IN  Seg(<< Entry("request.json", "", 0, 0, ""),
                    Entry("GitHubAppClient", r.payload.repo, 0, 0, "") >> \o d.plan,
                 d.end)

\* lines 74-91, then the dispatch: the handler up to its first agent call
BeforeAgent(r, iters) ==
    IF r.sig = NoHeader \/ r.sig = <<>>
    THEN Seg(<<>>, Respond(400, "Invalid signature"))
    ELSE IF verify_signature(r.payload, r.sig) = "TypeError"
    THEN Seg(<<>>, Raise("TypeError"))
    ELSE IF verify_signature(r.payload, r.sig) = "False"
    THEN Seg(<<>>, Respond(400, "Invalid signature"))
    ELSE AfterSignature(r, iters)

\* ----------------- the call of the coder agent -----------------
\* agents/coder_agent.py line 83: run_coder_agent(issue_title, issue_body, comments)
CODER_AGENT_PARAMS == <<"issue_title", "issue_body", "comments">>

\* a binding that takes any keyword
BindsAny(params, npos, kws) == npos <= Len(params)

\* Python binds a call with npos positional arguments and the keywords kws
\* to parameters without defaults, or raises TypeError.
Binds(params, npos, kws) ==
    /\ npos <= Len(params)
    /\ kws = { params[i] : i \in (npos + 1)..Len(params) }

\* lines 117 and 211: run_coder_agent(context, allowed_files=...)
CoderCallBinds(params) == Binds(params, 1, {"allowed_files"})

\* ----------------- the statements after an agent call -----------------
Writes(repo, num, it, branch, k) ==
    [i \in 1..k |-> Entry("create_or_update_file", repo, num, it, branch)]

\* lines 119-142: files is the number of entries of files_to_update, n the
\* number of the pull request that create_pull_request returns
IssueOpenedResume(p, files, n) ==
    Seg(<< Entry("create_branch", p.repo, p.num, 0, BranchName(p.num)) >>
        \o Writes(p.repo, p.num, 0, BranchName(p.num), files)
        \o << Entry("create_pull_request", p.repo, n, 0, BranchName(p.num)),
              Entry("iter_set", p.repo, n, 1, "") >>,
        Respond(200, "coder agent completed"))

\* the review also starting the count of the pull request
CheckRunResumeCounted(p, review_comment) ==
    Seg(<< [Entry("add_pr_comment", p.repo, p.num, 0, "review")
              EXCEPT !.body = review_comment],
           Entry("iter_set", p.repo, p.num, 1, "") >>,
        Respond(200, "reviewer agent completed"))

\* lines 165-167: review_comment is what run_reviewer_agent returned
CheckRunResume(p, review_comment) ==
    Seg(<< [Entry("add_pr_comment", p.repo, p.num, 0, "review")
              EXCEPT !.body = review_comment] >>,
        Respond(200, "reviewer agent completed"))

\* lines 212-223: the commit message reads PR_ITERATIONS[pr_number] again
IssueCommentResume(p, files, iters, head) ==
    LET pr_number == get_pr_number_from_url(PrUrl(p.repo, p.num))
    IN  Seg(Writes(p.repo, pr_number, iters[pr_number], head, files),
            Respond(200, "coder iteration completed"))

\* ----------------- the whole handler -----------------
PullKeys(ps) == { <<q.repo, q.num>> : q \in ps }
HeadRef(ps, repo, n) == (CHOOSE q \in ps : q.repo = repo /\ q.num = n).head

Done(trace, op) == { i \in 1..Len(trace) : trace[i].op = op /\ trace[i].ok }
IterWritesOf(trace) == SelectSeq(trace, LAMBDA e : e.op \in IterWrites)

\* the plan up to and with its call of op
UpTo(plan, op) ==
    SubSeq(plan, 1, CHOOSE i \in 1..Len(plan) : plan[i].op = op)

FailLast(plan) == [plan EXCEPT ![Len(plan)] = Failed(@)]

\* a TypeError of the call that is caught, the handler going on without files
CoderCallCaught(seg, rest) ==
    IF CoderCallBinds(CODER_AGENT_PARAMS)
    THEN Seg(seg.plan \o rest.plan, rest.end)
    ELSE Seg(FailLast(UpTo(seg.plan, "run_coder_agent")) \o rest.plan, rest.end)

\* lines 117 and 211: the call binds and `rest` follows, or TypeError leaves
\* the handler at the call
CoderCall(seg, rest) ==
    IF CoderCallBinds(CODER_AGENT_PARAMS)
    THEN Seg(seg.plan \o rest.plan, rest.end)
    ELSE Seg(FailLast(UpTo(seg.plan, "run_coder_agent")), Raise("TypeError"))

\* line 164: the agent returns review_comment and lines 165-167 follow
ReviewerCall(seg, review_comment, rest) ==
    Seg([seg.plan EXCEPT ![Len(seg.plan)] = [@ EXCEPT !.body = review_comment]]
        \o rest.plan, rest.end)

\* the count as the writes of a plan leave it (lines 140 and 180)
CountsAfter(iters, plan) ==
    LET w == IterWritesOf(plan)
    IN  IF w = <<>> THEN iters ELSE [iters EXCEPT ![w[1].num] = w[1].it]

\* lines 68-226, every call returning unless it cannot: ps are the pull
\* requests that exist, files the number of files the coder agent returns,
\* n the number a new pull request gets, review_comment the reviewer's text
github_webhook(r, iters, ps, files, n, review_comment) ==
    LET seg == BeforeAgent(r, iters)
        p == r.payload
    IN  IF seg.end.kind # "call" THEN seg
        ELSE IF seg.end.msg = "reviewer"
        THEN ReviewerCall(seg, review_comment, CheckRunResume(p, review_comment))
        ELSE IF seg.end.msg = "coder_issue"
        THEN CoderCall(seg, IssueOpenedResume(p, files, n))
        ELSE CoderCall(seg, IssueCommentResume(p, files, CountsAfter(iters, seg.plan),
                                               HeadRef(ps, p.repo, p.num)))

\* ----------------- outcomes of a handler -----------------
\* Either every call of the plan returns, or one fallible call raises and the
\* exception leaves the handler (no try around any of them): a 500.
FailedAt(plan, k) ==
    SubSeq(plan, 1, k - 1)
    \o << [plan[k] EXCEPT !.ok = FALSE, !.body = <<>>,
                          !.num = IF plan[k].op = "create_pull_request" THEN 0 ELSE @] >>

Outcomes(seg) ==
    { [trace |-> seg.plan, end |-> seg.end] }
    \cup { [trace |-> FailedAt(seg.plan, k),
            end |-> Raise(IF seg.plan[k].op \in AgentCalls THEN "agent" ELSE "collaborator")] :
             k \in { i \in 1..Len(seg.plan) : seg.plan[i].op \in Fallible /\ seg.plan[i].ok } }

\* ----------------- the state after a handler -----------------
\* a write of PR_ITERATIONS that is lost
ItersAfterLost(iters, trace) == iters

\* lines 140 and 180: at most one write of PR_ITERATIONS per handler
ItersAfter(iters, trace) == CountsAfter(iters, trace)

HistAfter(h, trace) ==
    LET w == IterWritesOf(trace)
    IN  IF w = <<>> THEN h
        ELSE IF w[1].op = "iter_set" THEN [h EXCEPT ![w[1].num] = <<>>]
        ELSE [h EXCEPT ![w[1].num] = Append(@, [count |-> w[1].it, exceeded |-> w[1].x])]

StartAfter(s, trace) ==
    LET w == IterWritesOf(trace)
    IN  IF w # <<>> /\ w[1].op = "iter_set" THEN [s EXCEPT ![w[1].num] = 1] ELSE s

PullsAfter(ps, trace) ==
    ps \cup { [repo |-> trace[i].repo, num |-> trace[i].num, head |-> trace[i].arg] :
                i \in Done(trace, "create_pull_request") }

NoResponse == [req |-> NoReq, trace |-> <<>>, end |-> Respond(0, "none")]

\* The loop runs one callback at a time, and a handler that returned or raised
\* has its response written out before another callback runs.
LoopFree == response = NoResponse

\* The handler of r ends with outcome o.
Finish(r, o, ps) ==
    /\ MAX_ITERATIONS' = MAX_ITERATIONS
    /\ UNCHANGED <<agent_response, files_to_update>>
    /\ PR_ITERATIONS' = ItersAfter(PR_ITERATIONS, o.trace)
    /\ hist' = HistAfter(hist, o.trace)
    /\ start' = StartAfter(start, o.trace)
    /\ pulls' = PullsAfter(ps, o.trace)
    /\ maxReached' =
          IF o.end.msg = "max iterations reached"
          THEN maxReached \cup { <<r.payload.repo, r.payload.num>> }
          ELSE maxReached
    /\ response' = [req |-> r, trace |-> o.trace, end |-> o.end]

\* ----------------- deliveries -----------------
Signed(r) ==
    /\ r.sig # NoHeader /\ r.sig # <<>>
    /\ verify_signature(r.payload, r.sig) = "True"

\* The pull request a signed payload is about, if any.
RefersToPull(p) ==
    /\ p.missing \notin {"json", "installation", "repository", "installation.id"}
    /\ \/ p.event = "check_run" /\ p.num # 0
       \/ p.event = "issue_comment" /\ p.missing # "issue.pull_request"

\* A signed delivery tells of a pull request that exists; one not opened by
\* this program was opened by a person, from some branch.
PullsSeen(r) ==
    IF Signed(r) /\ RefersToPull(r.payload)
       /\ <<r.payload.repo, r.payload.num>> \notin PullKeys(pulls)
    THEN pulls \cup { [repo |-> r.payload.repo, num |-> r.payload.num, head |-> "feature"] }
    ELSE pulls

\* The counts stay within the model's bound.
WithinBound(seg) ==
    \A i \in 1..Len(seg.plan) : seg.plan[i].op = "iter_add" => seg.plan[i].it <= MaxCount

\* The handler of r runs from line 80 to its response.
Run(r) ==
    /\ WithinBound(BeforeAgent(r, PR_ITERATIONS))
    /\ \E files \in 0..MaxFiles, n \in PRNums, review_comment \in ReviewTexts :
         \E o \in Outcomes(github_webhook(r, PR_ITERATIONS, PullsSeen(r), files, n,
                                          review_comment)) :
            /\ Done(o.trace, "create_pull_request") # {}
                  => <<r.payload.repo, n>> \notin PullKeys(pulls)
            /\ Finish(r, o, PullsSeen(r))

\* POST /webhook: a request arrives and is handled (lines 68-226).
Deliver(r) ==
    /\ LoopFree
    /\ Run(r)
    /\ UNCHANGED <<pc, req, inbox>>

\* A request that has arrived (its handler awaits the body, line 74) runs.
\* Of the waiting handlers with equal requests, which are interchangeable,
\* the first one runs.
Begin(t) ==
    /\ LoopFree
    /\ pc[t] = "start"
    /\ \A u \in DOMAIN pc : (pc[u] = "start" /\ req[u] = req[t]) => t <= u
    /\ Run(req[t])
    /\ pc' = [pc EXCEPT ![t] = "idle"]
    /\ req' = [req EXCEPT ![t] = NoReq]
    /\ inbox' = inbox

\* The response of the handler that just ended goes out.
SendResponse ==
    /\ response # NoResponse
    /\ response' = NoResponse
    /\ UNCHANGED <<MAX_ITERATIONS, PR_ITERATIONS, pulls, pc, req,
                   hist, start, maxReached, inbox, agent_response, files_to_update>>

\* ----------------- parse_agent_diff (agents/coder_agent.py 58-80) ---------
\* A text is a sequence of characters; a mapping is a function from paths to
\* contents, both sequences of characters.
NotParsed == [done |-> FALSE, map |-> <<>>]

Whitespace == { " ", "\n" }

\* str.rstrip(), str.lstrip(), str.strip()
RStrip(str) ==
    LET keep == { i \in 1..Len(str) : str[i] \notin Whitespace }
    IN  IF keep = {} THEN <<>>
        ELSE SubSeq(str, 1, CHOOSE i \in keep : \A j \in keep : j <= i)

LStrip(str) ==
    LET keep == { i \in 1..Len(str) : str[i] \notin Whitespace }
    IN  IF keep = {} THEN <<>>
        ELSE SubSeq(str, CHOOSE i \in keep : \A j \in keep : i <= j, Len(str))

Strip(str) == LStrip(RStrip(str))

\* str.strip(chars)
StripChars(str, chars) ==
    LET keep == { i \in 1..Len(str) : str[i] \notin chars }
    IN  IF keep = {} THEN <<>>
        ELSE SubSeq(str, CHOOSE i \in keep : \A j \in keep : i <= j,
                         CHOOSE i \in keep : \A j \in keep : j <= i)

EQ3 == <<"=", "=", "=">>

\* line 71: line.startswith("===") and line.endswith("===")
IsMarker(line) ==
    /\ Len(line) >= 3
    /\ SubSeq(line, 1, 3) = EQ3
    /\ SubSeq(line, Len(line) - 2, Len(line)) = EQ3

\* line 74: line.strip("= ").strip()
MarkerPath(line) == Strip(StripChars(line, {"=", " "}))

\* str.splitlines() for texts whose only line boundary is "\n"
RECURSIVE SplitLines(_)
SplitLines(text) ==
    IF text = <<>> THEN <<>>
    ELSE LET nl == { i \in 1..Len(text) : text[i] = "\n" }
         IN  IF nl = {} THEN << text >>
             ELSE LET k == CHOOSE i \in nl : \A j \in nl : i <= j
                  IN  << SubSeq(text, 1, k - 1) >> \o SplitLines(SubSeq(text, k + 1, Len(text)))

\* "\n".join(lines)
RECURSIVE JoinLines(_)
JoinLines(lines) ==
    IF lines = <<>> THEN <<>>
    ELSE IF Len(lines) = 1 THEN lines[1]
    ELSE lines[1] \o <<"\n">> \o JoinLines(Tail(lines))

\* files[path] = content
Put(map, path, content) ==
    [q \in DOMAIN map \cup {path} |-> IF q = path THEN content ELSE map[q]]

\* `if current_file:` is false for None and for the empty string
NoFile == <<"None">>
Truthy(current_file) == current_file # NoFile /\ current_file # <<>>

\* lines 69-77: the loop body, on the state (files, current_file, buffer)
ParseLine(st, raw) ==
    LET line == RStrip(raw)
    IN  IF IsMarker(line)
        THEN [files |-> IF Truthy(st.current_file)
                        THEN Put(st.files, st.current_file, Strip(JoinLines(st.buffer)))
                        ELSE st.files,
              current_file |-> MarkerPath(line),
              buffer |-> <<>>]
        ELSE [st EXCEPT !.buffer = Append(@, line)]

RECURSIVE ParseLines(_, _)
ParseLines(st, lines) ==
    IF lines = <<>> THEN st ELSE ParseLines(ParseLine(st, Head(lines)), Tail(lines))

\* lines 58-80
parse_agent_diff(text) ==
    LET st == ParseLines([files |-> <<>>, current_file |-> NoFile, buffer |-> <<>>],
                         SplitLines(text))
    IN  IF Truthy(st.current_file)
        THEN Put(st.files, st.current_file, Strip(JoinLines(st.buffer)))
        ELSE st.files

\* run_coder_agent line 90: the response of the agent is parsed
Parse ==
    /\ ~files_to_update.done
    /\ files_to_update' = [done |-> TRUE, map |-> parse_agent_diff(agent_response)]
    /\ UNCHANGED <<MAX_ITERATIONS, PR_ITERATIONS, pulls, pc, req,
                   response, hist, start, maxReached, inbox, agent_response>>

\* ----------------- specifications -----------------

Init ==
    /\ MAX_ITERATIONS = 5
    /\ PR_ITERATIONS = [n \in PRNums |-> 0]
    /\ pulls = {}
    /\ pc = [t \in BurstTasks |-> "idle"]
    /\ req = [t \in BurstTasks |-> NoReq]
    /\ response = NoResponse
    /\ hist = [n \in PRNums |-> <<>>]
    /\ start = [n \in PRNums |-> 0]
    /\ maxReached = {}
    /\ inbox = {}
    /\ agent_response = <<>> /\ files_to_update = NotParsed

Next ==
    \/ \E r \in Requests : Deliver(r)
    \/ SendResponse

Spec == Init /\ [][Next]_vars

TypeOK ==
    /\ MAX_ITERATIONS \in {3, 5}
    /\ PR_ITERATIONS \in [PRNums -> 0..MaxCount]
    /\ \A t \in DOMAIN pc : pc[t] \in {"idle", "start"}
    /\ PullKeys(pulls) \subseteq Repos \X PRNums
    /\ maxReached \subseteq PullKeys(pulls)
    /\ inbox \subseteq Requests

\* N deliveries of reviewer comments for one pull request whose number has
\* no entry, all arrived before any of them runs; k of them approve.  The
\* limit is the 5 of line 19 or 3, a value the global may be given instead.
BurstLimits == {3, 5}

BurstRequest(body) ==
    LET p == Payload("issue_comment", "created", "none", "A", 1, body)
    IN  [payload |-> p, sig |-> GoodSig(p)]

InitBurst ==
    /\ MAX_ITERATIONS \in BurstLimits
    /\ PR_ITERATIONS = [n \in PRNums |-> 0]
    /\ pulls = { [repo |-> "A", num |-> 1, head |-> "feature"] }
    /\ pc = [t \in BurstTasks |-> "start"]
    /\ \E k \in 0..MaxBurst :
          req = [t \in BurstTasks |->
                   IF t <= k THEN BurstRequest(<<TOK_REVIEWER, "approve">>)
                   ELSE BurstRequest(<<TOK_VERDICT, "Request Changes">>)]
    /\ response = NoResponse
    /\ hist = [n \in PRNums |-> <<>>]
    /\ start = [n \in PRNums |-> 0]
    /\ maxReached = {}
    /\ inbox = {}
    /\ agent_response = <<>> /\ files_to_update = NotParsed

NextBurst ==
    \/ \E t \in BurstTasks : Begin(t)
    \/ SendResponse

SpecBurst == InitBurst /\ [][NextBurst]_vars

\* ----------------- vocabulary of the properties -----------------
Has(trace, op) == \E i \in 1..Len(trace) : trace[i].op = op
HasAny(trace, ops) == \E i \in 1..Len(trace) : trace[i].op \in ops
Responded == response # NoResponse

\* The header is the HMAC-SHA256 of the raw body under the secret.
SignatureMatches(r) == r.sig = <<"sha256=", <<"hmac-sha256", WEBHOOK_SECRET, r.payload>> >>

IsPing(p) == p.event = "ping"
IsIssueOpened(p) == p.event = "issues" /\ p.action = "opened"
IsCheckRunCompleted(p) == p.event = "check_run" /\ p.action = "completed"
IsIssueCommentCreated(p) == p.event = "issue_comment" /\ p.action = "created"
IsHandledTrigger(p) == IsIssueOpened(p) \/ IsCheckRunCompleted(p) \/ IsIssueCommentCreated(p)

\* A complete reviewer comment on a pull request, and its verdict
IsReviewComment(p) ==
    IsIssueCommentCreated(p) /\ p.missing = "none" /\ is_reviewer_comment(p.body)
IsRequestChanges(p) == IsReviewComment(p) /\ Contains(Lower(p.body), "request changes")
IsApprove(p) == IsReviewComment(p) /\ ~Contains(Lower(p.body), "request changes")

CountFalse(h) == Cardinality({ i \in 1..Len(h) : ~h[i].exceeded })
Min(a, b) == IF a < b THEN a ELSE b

\* The request a step handles: the one it answers.
StepReq == response'.req

\* ----------------- C1 -----------------
\* C1: once a reviewer comment for a pull request was answered "max
\* iterations reached", no later handling calls the coder agent for that
\* pull request (no handling reaches the call of line 211 for it).
C1_NoGenerationAfterMax ==
    [][ (response = NoResponse /\ response' # NoResponse)
          => \A i \in 1..Len(response'.trace) :
                response'.trace[i].op = "run_coder_agent"
                   => <<response'.trace[i].repo, response'.trace[i].num>> \notin maxReached ]_vars

C1_Witness ==
    /\ Responded
    /\ IsRequestChanges(response.req.payload)
    /\ SignatureMatches(response.req)
    /\ <<response.req.payload.repo, response.req.payload.num>> \in maxReached
    /\ PR_ITERATIONS[response.req.payload.num] >= MAX_ITERATIONS + 2
    /\ ~Has(response.trace, "run_coder_agent")

\* ----------------- C2 -----------------
\* C2: of the N concurrent deliveries that increment the entry of one fresh
\* pull-request number, exactly min(N, limit) see exceeded = false and the
\* other N - limit see exceeded = true, whatever the order in which the
\* handlers run: with a limit of 3, exactly 3.
C2_ConcurrentIncrements ==
    /\ CountFalse(hist[1]) = Min(Len(hist[1]), MAX_ITERATIONS)
    /\ \A i \in 1..Len(hist[1]) : hist[1][i].exceeded <=> i > MAX_ITERATIONS
    /\ (MAX_ITERATIONS = 3 /\ Len(hist[1]) >= 3)
          => /\ Cardinality({ i \in 1..Len(hist[1]) : ~hist[1][i].exceeded }) = 3
             /\ Cardinality({ i \in 1..Len(hist[1]) : hist[1][i].exceeded }) = Len(hist[1]) - 3

C2_Witness ==
    /\ MAX_ITERATIONS = 3
    /\ \A t \in DOMAIN pc : pc[t] # "start"
    /\ Len(hist[1]) = Cardinality(DOMAIN pc)
    /\ Len(hist[1]) > 3
    /\ hist[1][Len(hist[1])].exceeded

\* ----------------- C3 -----------------
\* C3: on an entry that line 140 never set, the k-th increment yields count k;
\* the first five report exceeded = false, the sixth is the first to report
\* exceeded, and every later one reports exceeded too.
C3_SequentialIncrements ==
    \A n \in PRNums :
       start[n] = 0 =>
          \A i \in 1..Len(hist[n]) :
             /\ hist[n][i].count = i
             /\ hist[n][i].exceeded <=> i >= 6

C3_Witness ==
    \E n \in PRNums :
       /\ start[n] = 0
       /\ Len(hist[n]) >= 7
       /\ ~hist[n][5].exceeded /\ hist[n][6].exceeded /\ hist[n][7].exceeded

\* ----------------- C4 -----------------
\* C4 (as claimed): after the first increment that reports exceeded, every
\* later increment of the entry reports exceeded and leaves the count as it was.
C4_CountFrozen ==
    \A n \in PRNums :
       \A i, j \in 1..Len(hist[n]) :
          (i < j /\ hist[n][i].exceeded)
             => hist[n][j].exceeded /\ hist[n][j].count = hist[n][i].count

\* ----------------- C5 -----------------
\* C5 (as claimed): a step that handles an event of one repository does not
\* change the count used for a pull request of another repository.
C5_KeyedByRepository ==
    [][ PR_ITERATIONS' # PR_ITERATIONS
          => \A q \in pulls :
                q.repo # StepReq.payload.repo
                   => PR_ITERATIONS'[q.num] = PR_ITERATIONS[q.num] ]_vars

\* ----------------- C6 -----------------
\* C6 (as claimed): handling a reviewer comment whose verdict is approve
\* writes no count, posts no comment, writes no file and does not call the
\* coder agent.
C6_ApproveNoAction ==
    (Responded /\ SignatureMatches(response.req) /\ IsApprove(response.req.payload))
       => ~HasAny(response.trace,
                  {"iter_add", "iter_set", "add_pr_comment", "create_or_update_file",
                   "run_coder_agent"})

\* ----------------- C7 -----------------
\* C7 (as claimed): a request whose signature header is absent, empty or not the HMAC of
\* its body is answered 400 and nothing else happens: the body is not parsed,
\* no collaborator is called, PR_ITERATIONS is not written.
C7_BadSignatureRejected ==
    (Responded /\ ~SignatureMatches(response.req))
       => /\ response.end.status = 400
          /\ response.end.msg = "Invalid signature"
          /\ response.trace = <<>>

\* ----------------- C8 -----------------
\* C8 (as claimed): a signed event that is neither a ping nor a handled
\* trigger is answered with success, calls no collaborator and writes no
\* count, whatever keys its payload has.
C8_UnhandledAcknowledged ==
    (Responded /\ SignatureMatches(response.req)
       /\ ~IsPing(response.req.payload) /\ ~IsHandledTrigger(response.req.payload))
       => /\ response.end.status = 200
          /\ ~HasAny(response.trace, CollaboratorCalls \cup IterWrites)

\* ----------------- C9 -----------------
\* C9 (as claimed): a signed event of a handled trigger whose payload lacks a
\* key that trigger requires is answered 400 and writes no count.
C9_MalformedIsClientError ==
    (Responded /\ SignatureMatches(response.req)
       /\ IsHandledTrigger(response.req.payload)
       /\ response.req.payload.missing
             \in {"installation", "repository", "issue.title", "check_run.conclusion",
                  "comment.body"})
       => /\ response.end.status = 400
          /\ ~HasAny(response.trace, IterWrites)

\* ----------------- C10 -----------------
\* C10: in the handling of a request-changes comment the increment comes
\* before the coder agent is called, it is the only write of the count, and
\* a handling that fails at or after that call does not take the increment
\* back: the step in which it fails leaves the count at the value the
\* increment gave it.
C10_IncrementBeforeGeneration ==
    [][ (response' # NoResponse /\ IsRequestChanges(response'.req.payload)
           /\ SignatureMatches(response'.req))
          => LET tr == response'.trace
                 n == response'.req.payload.num
             IN  /\ \A j \in 1..Len(tr) :
                       tr[j].op = "run_coder_agent"
                          => \E i \in 1..(j - 1) :
                                /\ tr[i].op = "iter_add" /\ tr[i].ok
                                /\ tr[i].num = n /\ tr[i].it = tr[j].it
                 /\ Cardinality({ i \in 1..Len(tr) : tr[i].op \in IterWrites }) <= 1
                 /\ (response'.end.kind = "raise" /\ Has(tr, "run_coder_agent"))
                       => \E i \in 1..Len(tr) :
                             /\ tr[i].op = "iter_add"
                             /\ tr[i].it = PR_ITERATIONS[n] + 1
                             /\ PR_ITERATIONS'[n] = tr[i].it ]_vars

C10_Witness ==
    /\ Responded
    /\ IsRequestChanges(response.req.payload)
    /\ SignatureMatches(response.req)
    /\ response.end.kind = "raise"
    /\ \E j \in 1..Len(response.trace) :
          response.trace[j].op = "run_coder_agent" /\ ~response.trace[j].ok
    /\ \E i \in 1..Len(response.trace) :
          /\ response.trace[i].op = "iter_add"
          /\ PR_ITERATIONS[response.req.payload.num] = response.trace[i].it

\* ----------------- vocabulary of the later properties -----------------
\* The positions of the entries of trace whose operation is op
At(trace, op) == { i \in 1..Len(trace) : trace[i].op = op }

\* No call of the handling failed for a reason outside this program.
NoCollaboratorFailure(resp) == resp.end.msg \notin {"collaborator", "agent"}

\* ----------------- C11 -----------------
\* C11 (as claimed): a signed, complete issues/opened event none of whose
\* collaborators fails is answered "coder agent completed" after exactly one
\* call of the coder agent, one branch creation, the file writes, one
\* pull-request creation and one initialisation of that pull request's count
\* to 1, in this order.
C11_IssueOpenedCreatesPull ==
    (Responded /\ SignatureMatches(response.req)
       /\ IsIssueOpened(response.req.payload)
       /\ response.req.payload.missing = "none"
       /\ NoCollaboratorFailure(response))
       => LET tr == response.trace
          IN  /\ response.end.msg = "coder agent completed"
              /\ \A op \in {"run_coder_agent", "create_branch", "create_pull_request", "iter_set"} :
                    Cardinality(At(tr, op)) = 1
              /\ \E a, b, c, d \in 1..Len(tr) :
                    /\ a < b /\ b < c /\ d = c + 1 /\ d = Len(tr)
                    /\ tr[a].op = "run_coder_agent" /\ tr[a].ok
                    /\ tr[b].op = "create_branch" /\ b = a + 1
                    /\ \A i \in (b + 1)..(c - 1) : tr[i].op = "create_or_update_file"
                    /\ tr[c].op = "create_pull_request"
                    /\ tr[d].op = "iter_set" /\ tr[d].it = 1 /\ tr[d].num = tr[c].num
                    /\ PR_ITERATIONS[tr[d].num] = 1

\* ----------------- C13 -----------------
\* C13: no step lowers the count stored under a key that has not passed
\* the limit.
C13_CountNeverDecreases ==
    [][ \A n \in PRNums :
          PR_ITERATIONS[n] <= MAX_ITERATIONS => PR_ITERATIONS'[n] >= PR_ITERATIONS[n] ]_vars

C13_Witness ==
    \E n \in PRNums :
       /\ PR_ITERATIONS[n] = MAX_ITERATIONS
       /\ Len(hist[n]) = MAX_ITERATIONS
       /\ Responded
       /\ IsCheckRunCompleted(response.req.payload)
       /\ response.req.payload.num = n
       /\ response.end.msg = "reviewer agent completed"

\* ----------------- C14 -----------------
\* C14: the handling of a signed check_run/completed event that names a
\* pull request leaves every count as it is; it never calls the coder agent,
\* posts at most one comment, on that pull request, with the text that the
\* reviewer agent returned and only after it returned, and when it succeeds
\* it has called the reviewer agent once and posted that one comment last.
C14_CheckRunFrame ==
    [][ (response = NoResponse /\ response' # NoResponse /\ SignatureMatches(StepReq)
           /\ IsCheckRunCompleted(StepReq.payload) /\ StepReq.payload.num # 0)
          => /\ PR_ITERATIONS' = PR_ITERATIONS
             /\ LET tr == response'.trace
                         p == response'.req.payload
                     IN  /\ ~HasAny(tr, {"run_coder_agent"} \cup IterWrites)
                         /\ Cardinality(At(tr, "add_pr_comment")) <= 1
                         /\ Cardinality(At(tr, "run_reviewer_agent")) <= 1
                         /\ \A j \in At(tr, "add_pr_comment") :
                               /\ tr[j].repo = p.repo /\ tr[j].num = p.num
                               /\ tr[j].arg = "review"
                               /\ j = Len(tr)
                               /\ tr[j - 1].op = "run_reviewer_agent" /\ tr[j - 1].ok
                               /\ tr[j].ok => tr[j].body = tr[j - 1].body
                         /\ response'.end.status = 200
                               => /\ response'.end.msg = "reviewer agent completed"
                                  /\ At(tr, "add_pr_comment") # {}
                                  /\ tr[Len(tr)].ok ]_vars

C14_Witness ==
    /\ Responded
    /\ IsCheckRunCompleted(response.req.payload)
    /\ response.req.payload.num # 0
    /\ response.end.msg = "reviewer agent completed"
    /\ Has(response.trace, "add_pr_comment")
    /\ PR_ITERATIONS[response.req.payload.num] > 1
    /\ \E j \in At(response.trace, "add_pr_comment") :
          response.trace[j].body = <<"text", TOK_REVIEWER, "request changes">>

\* ----------------- C15 -----------------
\* C15 (as claimed): a signed ping is answered 200 {"status": "pong"} in the
\* step that handles it, whatever its payload is and whatever the counts
\* are; that step calls no collaborator and changes no count and no pull
\* request.
C15_PingPong ==
    [][ (response = NoResponse /\ response' # NoResponse
           /\ SignatureMatches(StepReq) /\ IsPing(StepReq.payload))
          => /\ response'.end = Respond(200, "pong")
             /\ ~HasAny(response'.trace, CollaboratorCalls \cup IterWrites)
             /\ PR_ITERATIONS' = PR_ITERATIONS
             /\ pulls' = pulls ]_vars

\* ----------------- C16 -----------------
\* C16 (as claimed): a signed issue_comment/created event whose body neither
\* contains the verdict marker nor begins with [REVIEWER] is answered with
\* success, unless a collaborator failed, and its handling writes no count,
\* calls no agent and posts no comment.
C16_NonReviewerCommentIgnored ==
    (Responded /\ SignatureMatches(response.req)
       /\ IsIssueCommentCreated(response.req.payload)
       /\ response.req.payload.missing # "comment.body"
       /\ ~is_reviewer_comment(response.req.payload.body))
       => /\ ~HasAny(response.trace, IterWrites \cup AgentCalls \cup {"add_pr_comment"})
          /\ NoCollaboratorFailure(response) => response.end.status = 200

\* ----------------- C17 -----------------
\* C17 (as claimed): a signed issue_comment/created event that carries the
\* reviewer marker but whose parent issue is not a pull request is answered
\* with success, unless a collaborator failed, and its handling writes no
\* count and does not call the coder agent.
C17_PlainIssueCommentUnhandled ==
    (Responded /\ SignatureMatches(response.req)
       /\ IsIssueCommentCreated(response.req.payload)
       /\ response.req.payload.missing = "issue.pull_request"
       /\ is_reviewer_comment(response.req.payload.body)
       /\ NoCollaboratorFailure(response))
       => /\ response.end.status = 200
          /\ ~HasAny(response.trace, IterWrites \cup {"run_coder_agent"})

\* ----------------- C18 -----------------
\* C18: when the increment made for a signed request-changes comment
\* reports the limit exceeded, the next and last thing that handling does
\* before it answers is to post the system comment on the pull request of
\* the event; it answers "max iterations reached" only if the comment was
\* posted, and no handling that did not exceed the limit posts it.
C18_LimitIsAnnounced ==
    (Responded /\ SignatureMatches(response.req) /\ IsRequestChanges(response.req.payload))
       => LET tr == response.trace
              p == response.req.payload
          IN  /\ \A i \in At(tr, "iter_add") :
                    tr[i].x
                       => /\ Len(tr) = i + 1
                          /\ tr[i + 1].op = "add_pr_comment"
                          /\ tr[i + 1].arg = "system"
                          /\ tr[i + 1].repo = p.repo /\ tr[i + 1].num = p.num
                          /\ tr[i + 1].ok <=> response.end.msg = "max iterations reached"
              /\ response.end.msg = "max iterations reached"
                    => \E i \in At(tr, "iter_add") : tr[i].x
              /\ \A j \in At(tr, "add_pr_comment") : tr[j - 1].op = "iter_add" /\ tr[j - 1].x

C18_Witness ==
    /\ Responded
    /\ IsRequestChanges(response.req.payload)
    /\ response.end.msg = "max iterations reached"
    /\ \E j \in At(response.trace, "add_pr_comment") :
          response.trace[j].ok /\ response.trace[j].arg = "system"
    /\ PR_ITERATIONS[response.req.payload.num] = MAX_ITERATIONS + 1

\* ----------------- the review loop of one pull request -----------------
\* The platform raises an event for what a handler did to a pull request:
\* the comment that line 165 posted, with the text the reviewer agent
\* returned, the system comment of line 182, and the completion of the
\* checks that run on a commit that line 215 pushed.
Event(repo, num, event, action, body) ==
    LET p == Payload(event, action, "none", repo, num, body)
    IN  [payload |-> p, sig |-> GoodSig(p)]

\* lines 165, 182 and 215: the calls whose effect on the pull request raises
\* an event
Emitted(resp) ==
    LET tr == resp.trace
    IN  { Event(tr[i].repo, tr[i].num, "issue_comment", "created",
                IF tr[i].arg = "system" THEN SYSTEM_COMMENT ELSE tr[i].body) :
            i \in Done(tr, "add_pr_comment") }
        \cup { Event(tr[i].repo, tr[i].num, "check_run", "completed", <<>>) :
                 i \in { j \in Done(tr, "create_or_update_file") :
                           resp.req.payload.event = "issue_comment" } }

\* A delivery that was answered with a server error may be sent again by
\* hand; the platform does not send it again by itself.
Redeliverable(resp) == IF resp.end.status >= 500 THEN { resp.req } ELSE {}

\* The pull request of the loop is one of these, opened by a person.
LoopPulls == { [repo |-> r, num |-> n, head |-> "feature"] : r \in Repos, n \in PRNums }
ChecksCompleted(q) == Event(q.repo, q.num, "check_run", "completed", <<>>)

\* Every review of the loop requests changes.
ReviewsRequestChanges(resp) ==
    \A i \in 1..Len(resp.trace) :
       resp.trace[i].op = "run_reviewer_agent" /\ resp.trace[i].ok
          => VerdictOf(resp.trace[i].body) = "request changes"

\* An event of the inbox is delivered and handled.
LoopDeliver ==
    \E e \in inbox :
       /\ Deliver(e)
       /\ ReviewsRequestChanges(response')

\* The response goes out; the platform raises what the handling caused.
LoopSendResponse ==
    /\ response # NoResponse
    /\ response' = NoResponse
    /\ \E again \in SUBSET Redeliverable(response) :
          inbox' = ((inbox \ { response.req }) \cup again) \cup Emitted(response)
    /\ UNCHANGED <<MAX_ITERATIONS, PR_ITERATIONS, pulls, pc, req,
                   hist, start, maxReached, agent_response, files_to_update>>

\* The pull request exists, its number has no entry, and its first checks
\* have completed.
InitLoop ==
    /\ MAX_ITERATIONS = 5
    /\ PR_ITERATIONS = [n \in PRNums |-> 0]
    /\ start = [n \in PRNums |-> 0]
    /\ \E q \in LoopPulls : pulls = { q } /\ inbox = { ChecksCompleted(q) }
    /\ pc = [t \in BurstTasks |-> "idle"]
    /\ req = [t \in BurstTasks |-> NoReq]
    /\ response = NoResponse
    /\ hist = [n \in PRNums |-> <<>>]
    /\ maxReached = {}
    /\ agent_response = <<>> /\ files_to_update = NotParsed

NextLoop ==
    \/ LoopDeliver
    \/ LoopSendResponse

\* Every event is eventually delivered and handled: a delivery in which no
\* collaborator fails for a reason outside this program happens again and
\* again while it can; the loop sends every response.
LoopFairness ==
    /\ WF_vars(LoopSendResponse)
    /\ SF_vars(LoopDeliver /\ NoCollaboratorFailure(response'))

SpecLoop == InitLoop /\ [][NextLoop]_vars /\ LoopFairness

\* ----------------- C19 -----------------
\* C19 (as claimed): in the review loop of one pull request, where every
\* review requests changes, every event is eventually handled and no
\* collaborator fails for a reason outside this program, an increment for
\* the pull request eventually reports the limit exceeded, and the number
\* of request-changes rounds that were let through to the coder agent never
\* exceeds MAX_ITERATIONS.
C19_LoopReachesMax ==
    /\ []NoCollaboratorFailure(response)
          => <>(\E q \in pulls : \E i \in 1..Len(hist[q.num]) : hist[q.num][i].exceeded)
    /\ [](\A q \in pulls : CountFalse(hist[q.num]) <= MAX_ITERATIONS)

\* ----------------- the texts given to parse_agent_diff -----------------
MaxLines == 3

SP == <<" ">>
PathAB == <<"a", "/", "b">>
PathC == <<"c">>
MarkerLine(path) == EQ3 \o SP \o path \o SP \o EQ3

\* Marker lines as the agent is told to write them, with and without the
\* spaces, with a trailing space, indented; a line of "=" only; content
\* lines with and without blanks around them; the empty line.
TextLines ==
    { MarkerLine(PathAB), MarkerLine(PathC),
      EQ3 \o PathC \o EQ3,
      MarkerLine(PathC) \o SP,
      SP \o MarkerLine(PathC),
      EQ3 \o EQ3,
      <<"x">>,
      <<" ", "y", " ">>,
      <<>> }

RECURSIVE LineSeqs(_)
LineSeqs(n) ==
    IF n = 0 THEN { <<>> }
    ELSE LineSeqs(n - 1)
         \cup { Append(ls, l) : ls \in { q \in LineSeqs(n - 1) : Len(q) = n - 1 }, l \in TextLines }

Texts == { JoinLines(ls) : ls \in LineSeqs(MaxLines) }

InitParse ==
    /\ MAX_ITERATIONS = 5
    /\ PR_ITERATIONS = [n \in PRNums |-> 0]
    /\ pulls = {}
    /\ pc = [t \in BurstTasks |-> "idle"]
    /\ req = [t \in BurstTasks |-> NoReq]
    /\ response = NoResponse
    /\ hist = [n \in PRNums |-> <<>>]
    /\ start = [n \in PRNums |-> 0]
    /\ maxReached = {}
    /\ inbox = {}
    /\ agent_response \in Texts
    /\ files_to_update = NotParsed

NextParse == Parse

SpecParse == InitParse /\ [][NextParse]_vars

\* ----------------- C20 -----------------
\* The marker lines of a text: those of the form === <path> === with a path.
\* Every other line is content.
PathMarkers(ls) ==
    { i \in 1..Len(ls) : IsMarker(RStrip(ls[i])) /\ MarkerPath(RStrip(ls[i])) # <<>> }

PathAt(ls, i) == MarkerPath(RStrip(ls[i]))

\* The content of the block that the marker at line i opens: the lines up to
\* the next marker or the end of the text, trimmed.
BlockContent(ls, i) ==
    LET later == { j \in PathMarkers(ls) : j > i }
        stop == IF later = {} THEN Len(ls) + 1
                ELSE CHOOSE j \in later : \A k \in later : j <= k
    IN  Strip(JoinLines([k \in 1..(stop - i - 1) |-> RStrip(ls[i + k])]))

\* C20 (as claimed): the mapping returned for a text has exactly one entry
\* for each path of a marker line, whose value is the trimmed content of the
\* (last) block with that path, up to the next marker line or the end of the
\* text; a text with no marker line gives the empty mapping and the lines
\* before the first marker appear in no value.
C20_ParseBlocks ==
    files_to_update.done
       => LET ls == SplitLines(agent_response)
              m == files_to_update.map
          IN  /\ DOMAIN m = { PathAt(ls, i) : i \in PathMarkers(ls) }
              /\ \A i \in PathMarkers(ls) :
                    (\A j \in PathMarkers(ls) : PathAt(ls, j) = PathAt(ls, i) => j <= i)
                       => m[PathAt(ls, i)] = BlockContent(ls, i)

\* ----------------- C21 -----------------
\* The entries of a trace whose call raised
FailedIn(trace) == { i \in 1..Len(trace) : ~trace[i].ok }

\* C21: when a collaborator call of the handling of a signed issues/opened
\* event raises (the client, the comments, the coder agent, the branch, a
\* file write, the pull request), the failed call is the last thing that
\* handling did, the request is answered with a server error, and neither
\* that step nor any earlier step of the handling wrote a count: line 140 is
\* reached only by a handling in which nothing failed.
C21_IssueOpenedFailureAborts ==
    [][ (response = NoResponse /\ response' # NoResponse
           /\ SignatureMatches(StepReq) /\ IsIssueOpened(StepReq.payload))
          => /\ response'.end.msg # "coder agent completed"
                   => /\ PR_ITERATIONS' = PR_ITERATIONS
                      /\ hist' = hist /\ start' = start
             /\ FailedIn(response'.trace) # {}
                   => /\ FailedIn(response'.trace) = { Len(response'.trace) }
                      /\ response'.end.kind = "raise"
                      /\ response'.end.status >= 500
                      /\ ~HasAny(response'.trace, IterWrites)
                      /\ pulls' = pulls ]_vars

C21_Witness ==
    /\ Responded
    /\ IsIssueOpened(response.req.payload)
    /\ SignatureMatches(response.req)
    /\ response.end = Raise("TypeError")
    /\ response.trace[Len(response.trace)].op = "run_coder_agent"
    /\ ~response.trace[Len(response.trace)].ok
    /\ \E n \in PRNums : PR_ITERATIONS[n] > 0

\* ----------------- C22 -----------------
\* C22: the handling of a signed request-changes comment creates no branch
\* and no pull request, and every file it writes goes to the repository of
\* the event and to the head branch of the one pull request the comment
\* belongs to (line 212), a branch that existed before the handling began.
C22_WritesToHeadBranch ==
    (Responded /\ SignatureMatches(response.req) /\ IsRequestChanges(response.req.payload))
       => LET tr == response.trace
              p == response.req.payload
              own == { q \in pulls : q.repo = p.repo /\ q.num = p.num }
          IN  /\ ~HasAny(tr, {"create_branch", "create_pull_request"})
              /\ Cardinality(own) = 1
              /\ \A i \in At(tr, "create_or_update_file") :
                    /\ tr[i].repo = p.repo /\ tr[i].num = p.num
                    /\ \A q \in own : tr[i].arg = q.head
                    /\ \E j \in 1..(i - 1) : tr[j].op = "run_coder_agent" /\ tr[j].ok

C22_Witness ==
    /\ Responded
    /\ IsRequestChanges(response.req.payload)
    /\ SignatureMatches(response.req)
    /\ Has(response.trace, "run_coder_agent")
    /\ Has(response.trace, "get_files")
    /\ \E q \in pulls : q.repo # response.req.payload.repo

\* ----------------- C24 -----------------
\* C24: in the handling of a signed request-changes comment the iteration
\* number given to the coder agent (line 205) and the one in the message of
\* every commit (line 220) are the count that the increment of that same
\* handling produced (line 180), whatever other deliveries for the pull
\* request are handled before and after it.
C24_OwnIterationNumber ==
    (Responded /\ SignatureMatches(response.req) /\ IsRequestChanges(response.req.payload))
       => LET tr == response.trace
          IN  \A i \in At(tr, "iter_add") :
                 \A j \in At(tr, "run_coder_agent") \cup At(tr, "create_or_update_file") :
                    tr[j].it = tr[i].it

C24_Witness ==
    /\ Responded
    /\ IsRequestChanges(response.req.payload)
    /\ \E j \in At(response.trace, "run_coder_agent") :
          /\ response.trace[j].it >= 2
          /\ response.trace[j].it = PR_ITERATIONS[response.req.payload.num]
    /\ \E t \in DOMAIN pc : pc[t] = "start" /\ IsRequestChanges(req[t].payload)

\* ----------------- C25 -----------------
\* C25: a signed issue_comment/created event whose body is the system
\* comment of line 185 is not taken for a reviewer comment: the step that
\* handles it changes no count, calls no agent, posts no comment and writes
\* no file, so the platform raises no event for it and the limit notice
\* cannot set off another one.
C25_SystemCommentIgnored ==
    [][ (response = NoResponse /\ response' # NoResponse /\ SignatureMatches(StepReq)
           /\ IsIssueCommentCreated(StepReq.payload)
           /\ StepReq.payload.body = SYSTEM_COMMENT)
          => /\ response'.end.msg # "max iterations reached"
             /\ ~HasAny(response'.trace,
                        IterWrites \cup AgentCalls \cup {"add_pr_comment", "create_or_update_file"})
             /\ Emitted(response') = {}
             /\ PR_ITERATIONS' = PR_ITERATIONS
             /\ hist' = hist /\ maxReached' = maxReached ]_vars

C25_Witness ==
    /\ Responded
    /\ SignatureMatches(response.req)
    /\ IsIssueCommentCreated(response.req.payload)
    /\ response.req.payload.body = SYSTEM_COMMENT
    /\ response.end = Respond(200, "not reviewer comment")
    /\ <<response.req.payload.repo, response.req.payload.num>> \in maxReached
    /\ PR_ITERATIONS[response.req.payload.num] = MAX_ITERATIONS + 1

====

